---- MODULE Spec2Model ----
(***************************************************************************)
(* Model of the tamper-evident hash chains of src/database.py              *)
(* (VaccineDatabase.add_audit_entry, add_temperature_log and               *)
(* verify_audit_trail) over a PostgreSQL store.                            *)
(*                                                                         *)
(* Every call opens its own connection (get_connection), so two sessions   *)
(* of the application run their statements interleaved, each statement     *)
(* seeing the rows committed before it started (READ COMMITTED).  An       *)
(* append is therefore three steps: SELECT of the tail, INSERT (which      *)
(* draws the id from the table's SERIAL sequence), COMMIT.                 *)
(*                                                                         *)
(* The forecast side (src/predictor.py: predict_temperature and            *)
(* check_breach_risk) is modelled at the end of the module, as pure        *)
(* functions applied to inputs drawn in the initial state.                 *)
(*                                                                         *)
(* Text is modelled structurally: a formatted string is the tuple of its   *)
(* parts, a timestamp text is the pair <<separator, instant>>, and SHA-256 *)
(* is an injective function of its input (no collisions).                  *)
(***************************************************************************)
EXTENDS Integers, Sequences, FiniteSets, TLC

\* Bounds of the model.
MaxRows == 2

\* Inputs the operations are called with.
Sessions == {"s1", "s2"}
Doctors == {"DOC001", "DOC002"}
Devices == {"fridge-01", "manual"}
AuditActions == {"LOGIN", "LOGOUT"}
AuditDetails == {"ok"}
\* Temperatures in thousandths of a degree Celsius.
Temperatures == {5000, 5126}
VaccineType == "General"
Location == "Unknown"

VARIABLES audit, temps, auditSeq, tempSeq, clock, pc, loc, pend, ret, tampered,
          discipline, fcst

vars == <<audit, temps, auditSeq, tempSeq, clock, pc, loc, pend, ret, tampered,
          discipline, fcst>>

-----------------------------------------------------------------------------
\* Text and hashing

\* "0" * 64
Sentinel == <<"0000000000000000000000000000000000000000000000000000000000000000">>

\* datetime.now().isoformat(): 'YYYY-MM-DDTHH:MM:SS.ffffff'
IsoFormat(t) == <<"T", t>>

\* f"{timestamp}" of the datetime psycopg2 returns for a TIMESTAMP column:
\* str(datetime) = 'YYYY-MM-DD HH:MM:SS.ffffff'
StrDatetime(t) == <<" ", t>>

\* The TIMESTAMP column parses either text to the instant it denotes.
ToTimestamp(text) == text[2]

\* f"{temperature}" of a float: its shortest repr, all decimals kept.
FloatText(milli) == <<"float", milli>>

\* DECIMAL(5,2): the value rounded to hundredths (here: of a value in
\* thousandths, rounding half away from zero).
ToDecimal52(milli) == ((milli + 5) \div 10) * 10

\* hashlib.sha256(data_string.encode()).hexdigest()
SHA256(data) == <<"sha256", data>>

\* f"{timestamp}|{doctor_id}|{action}|{details}|{previous_hash}"
AuditDataString(tsText, doctor, action, details, prev) ==
    <<tsText, doctor, action, details, prev>>

\* f"{timestamp}|{doctor_id}|{device_id}|{temperature}|{vaccine_type}|{location}|{previous_hash}"
TempDataString(tsText, doctor, device, tempText, vaccine, location, prev) ==
    <<tsText, doctor, device, tempText, vaccine, location, prev>>

-----------------------------------------------------------------------------
\* Queries

RECURSIVE OrderById(_)
\* ORDER BY id
OrderById(rows) ==
    IF rows = {} THEN <<>>
    ELSE LET first == CHOOSE r \in rows : \A o \in rows : r.id <= o.id
         IN  <<first>> \o OrderById(rows \ {first})

\* WHERE doctor_id=%s
OfDoctor(table, doctor) == {r \in table : r.doctor_id = doctor}

\* The mutant of TailRows that forgets the WHERE clause.
TailRowsAnyDoctor(table, doctor) == table

\* The rows the tail query of an append ranges over.
TailRows(table, doctor) == OfDoctor(table, doctor)

\* SELECT current_hash ... WHERE doctor_id=%s ORDER BY id DESC LIMIT 1;
\* previous_hash = result[0] if result else "0" * 64
TailHash(table, doctor) ==
    LET rows == OrderById(TailRows(table, doctor))
    IN  IF Len(rows) = 0 THEN Sentinel ELSE rows[Len(rows)].current_hash

\* SELECT id, timestamp, action, previous_hash, current_hash, details
\* FROM audit_trail WHERE doctor_id=%s ORDER BY id; cursor.fetchall()
AuditEntries(doctor) == OrderById(OfDoctor(audit, doctor))

TempEntries(doctor) == OrderById(OfDoctor(temps, doctor))

-----------------------------------------------------------------------------
\* verify_audit_trail

\* The timestamp text verify puts in its data_string.
VerifyTimestampText(t) == StrDatetime(t)

\* calculated_hash of one fetched entry.
CalculatedHash(doctor, entry) ==
    SHA256(AuditDataString(VerifyTimestampText(entry.timestamp), doctor,
                           entry.action, entry.details, entry.previous_hash))

ValidStatus(entry) ==
    [id |-> entry.id, timestamp |-> entry.timestamp, action |-> entry.action,
     status |-> "VALID"]

\* An Optional[int]: None is <<>>, the integer n is <<n>>.
None == <<>>
Some(n) == <<n>>

RECURSIVE VerifyLoopStatusFirst(_, _, _, _, _)
\* The mutant of VerifyLoop that appends an entry's status before checking it.
VerifyLoopStatusFirst(doctor, entries, i, previous_hash, results) ==
    IF i > Len(entries)
    THEN [ok |-> TRUE, bad |-> None, statuses |-> results]
    ELSE LET entry == entries[i]
             marked == Append(results, ValidStatus(entry))
         IN  IF entry.previous_hash # previous_hash
             THEN [ok |-> FALSE, bad |-> Some(entry.id), statuses |-> marked]
             ELSE IF CalculatedHash(doctor, entry) # entry.current_hash
             THEN [ok |-> FALSE, bad |-> Some(entry.id), statuses |-> marked]
             ELSE VerifyLoopStatusFirst(doctor, entries, i + 1, entry.current_hash,
                                        marked)

RECURSIVE VerifyLoop(_, _, _, _, _)
\* The for loop over entries, from entry i on.
VerifyLoop(doctor, entries, i, previous_hash, results) ==
    IF i > Len(entries)
    THEN [ok |-> TRUE, bad |-> None, statuses |-> results]
    ELSE LET entry == entries[i]
         IN  IF entry.previous_hash # previous_hash
             THEN [ok |-> FALSE, bad |-> Some(entry.id), statuses |-> results]
             ELSE IF CalculatedHash(doctor, entry) # entry.current_hash
             THEN [ok |-> FALSE, bad |-> Some(entry.id), statuses |-> results]
             ELSE VerifyLoop(doctor, entries, i + 1, entry.current_hash,
                             Append(results, ValidStatus(entry)))

\* The mutant of VerifyResult that reports an empty trail as tampered.
VerifyResultEmptyBad(doctor, entries) ==
    IF Len(entries) = 0
    THEN [ok |-> FALSE, bad |-> None, statuses |-> <<>>]
    ELSE VerifyLoop(doctor, entries, 1, Sentinel, <<>>)

\* (ok, first bad id, verification_results) for the fetched entries.
VerifyResult(doctor, entries) == VerifyLoop(doctor, entries, 1, Sentinel, <<>>)

-----------------------------------------------------------------------------
\* State of a session

NoLoc == [doctor |-> "", device |-> "", action |-> "", details |-> "",
          temperature |-> 0, previous_hash |-> Sentinel]

NoRet == [kind |-> "none", doctor |-> "", hash |-> Sentinel, ok |-> TRUE,
          bad |-> None, statuses |-> <<>>, entries |-> <<>>]

HashRet(doctor, h) == [NoRet EXCEPT !.kind = "hash", !.doctor = doctor, !.hash = h]

ErrorRet(doctor) == [NoRet EXCEPT !.kind = "error", !.doctor = doctor]

VerifyRet(doctor, entries, res) ==
    [NoRet EXCEPT !.kind = "verify", !.doctor = doctor, !.ok = res.ok,
                  !.bad = res.bad, !.statuses = res.statuses, !.entries = entries]

InFlight(s) == pc[s] # "idle"

\* datetime.now(): the wall clock, one tick later at every reading.
Now == clock + 1

\* Rows drawn from the sequences so far plus the appends that are yet to draw.
Budget == auditSeq + tempSeq + Cardinality({s \in Sessions : pc[s] \in {"audit_read", "temp_read"}})

Start ==
    /\ audit = {}
    /\ temps = {}
    /\ auditSeq = 0
    /\ tempSeq = 0
    /\ clock = 0
    /\ pc = [s \in Sessions |-> "idle"]
    /\ loc = [s \in Sessions |-> NoLoc]
    /\ pend = [s \in Sessions |-> {}]
    /\ ret = [s \in Sessions |-> NoRet]
    /\ tampered = <<>>

\* check_breach_risk's result when it reports nothing.
NoAlert == [alert_type |-> None, severity |-> None, minutes |-> None]

\* No forecast call is in progress.
NoForecast ==
    [stage |-> "off", readings |-> <<>>, finite |-> TRUE, path |-> "none",
     predictions |-> None, accuracy |-> 0, mae |-> 0, current_temp |-> 0,
     alert |-> NoAlert, current_temp_again |-> 0, alert_again |-> NoAlert,
     actions |-> <<>>,
     lags |-> 0, windows |-> <<>>, window |-> <<>>, training_row |-> <<>>,
     projection_row |-> <<>>]

\* The callers schedule appends freely: any two calls may overlap.
Init == Start /\ discipline = "none" /\ fcst = NoForecast

\* The callers never overlap two appends to one chain (the code keys a chain
\* by table and doctor_id).
InitSerial == Start /\ discipline = "chain" /\ fcst = NoForecast

\* The callers never overlap two appends to one stream as the specification
\* names streams: the subject's audit trail, one device's readings.
InitStreams == Start /\ discipline = "stream" /\ fcst = NoForecast

\* As InitSerial, for runs that are one row longer.
InitLong == Start /\ discipline = "long" /\ fcst = NoForecast

\* How many rows a run may draw from the sequences.
RowLimit == IF discipline = "long" THEN MaxRows + 1 ELSE MaxRows

\* The chain and the stream an in-flight append of session t writes.
ChainOf(t) ==
    <<IF pc[t] \in {"audit_read", "audit_ins"} THEN "audit" ELSE "temperature",
      loc[t].doctor>>

StreamOf(t) == <<ChainOf(t), loc[t].device>>

\* Whether the schedule lets session s start an append now.
MayStart(s, table, doctor, device) ==
    \A t \in Sessions \ {s} :
        InFlight(t) =>
            /\ discipline \in {"chain", "long"} => ChainOf(t) # <<table, doctor>>
            /\ discipline = "stream" => StreamOf(t) # <<<<table, doctor>>, device>>

-----------------------------------------------------------------------------
\* add_audit_entry

\* The SELECT of the tail hash.
AuditSelectTail(s, doctor, action, details) ==
    /\ pc[s] = "idle"
    /\ Budget < RowLimit
    /\ MayStart(s, "audit", doctor, "")
    /\ pc' = [pc EXCEPT ![s] = "audit_read"]
    /\ loc' = [loc EXCEPT ![s] = [NoLoc EXCEPT !.doctor = doctor, !.action = action,
                                               !.details = details,
                                               !.previous_hash = TailHash(audit, doctor)]]
    /\ ret' = [ret EXCEPT ![s] = NoRet]
    /\ UNCHANGED <<clock, audit, temps, auditSeq, tempSeq, pend, tampered, discipline, fcst>>

\* The row the INSERT writes at instant t with the id drawn from the sequence.
AuditRow(id, t, l) ==
    [id |-> id, doctor_id |-> l.doctor, timestamp |-> ToTimestamp(IsoFormat(t)),
     action |-> l.action, previous_hash |-> l.previous_hash,
     current_hash |-> SHA256(AuditDataString(IsoFormat(t), l.doctor, l.action,
                                             l.details, l.previous_hash)),
     details |-> l.details]

\* timestamp = datetime.now().isoformat(), the hash, and the INSERT.
AuditInsert(s) ==
    /\ pc[s] = "audit_read"
    /\ clock' = Now
    /\ pend' = [pend EXCEPT ![s] = {AuditRow(auditSeq + 1, Now, loc[s])}]
    /\ auditSeq' = auditSeq + 1
    /\ pc' = [pc EXCEPT ![s] = "audit_ins"]
    /\ UNCHANGED <<audit, temps, tempSeq, loc, ret, tampered, discipline, fcst>>

\* conn.commit(); return current_hash
AuditCommit(s) ==
    /\ pc[s] = "audit_ins"
    /\ audit' = audit \cup pend[s]
    /\ ret' = [ret EXCEPT ![s] =
                 HashRet(loc[s].doctor, (CHOOSE r \in pend[s] : TRUE).current_hash)]
    /\ pend' = [pend EXCEPT ![s] = {}]
    /\ pc' = [pc EXCEPT ![s] = "idle"]
    /\ loc' = [loc EXCEPT ![s] = NoLoc]
    /\ UNCHANGED <<clock, temps, auditSeq, tempSeq, tampered, discipline, fcst>>

-----------------------------------------------------------------------------
\* add_temperature_log

TempSelectTail(s, doctor, device, temperature) ==
    /\ pc[s] = "idle"
    /\ Budget < RowLimit
    /\ MayStart(s, "temperature", doctor, device)
    /\ pc' = [pc EXCEPT ![s] = "temp_read"]
    /\ loc' = [loc EXCEPT ![s] = [NoLoc EXCEPT !.doctor = doctor, !.device = device,
                                               !.temperature = temperature,
                                               !.previous_hash = TailHash(temps, doctor)]]
    /\ ret' = [ret EXCEPT ![s] = NoRet]
    /\ UNCHANGED <<clock, audit, temps, auditSeq, tempSeq, pend, tampered, discipline, fcst>>

TempRow(id, t, l) ==
    [id |-> id, doctor_id |-> l.doctor, device_id |-> l.device,
     timestamp |-> ToTimestamp(IsoFormat(t)),
     temperature |-> ToDecimal52(l.temperature),
     vaccine_type |-> VaccineType, location |-> Location,
     prev_hash |-> l.previous_hash,
     current_hash |-> SHA256(TempDataString(IsoFormat(t), l.doctor, l.device,
                                            FloatText(l.temperature), VaccineType,
                                            Location, l.previous_hash))]

TempInsert(s) ==
    /\ pc[s] = "temp_read"
    /\ clock' = Now
    /\ pend' = [pend EXCEPT ![s] = {TempRow(tempSeq + 1, Now, loc[s])}]
    /\ tempSeq' = tempSeq + 1
    /\ pc' = [pc EXCEPT ![s] = "temp_ins"]
    /\ UNCHANGED <<audit, temps, auditSeq, loc, ret, tampered, discipline, fcst>>

TempCommit(s) ==
    /\ pc[s] = "temp_ins"
    /\ temps' = temps \cup pend[s]
    /\ ret' = [ret EXCEPT ![s] =
                 HashRet(loc[s].doctor, (CHOOSE r \in pend[s] : TRUE).current_hash)]
    /\ pend' = [pend EXCEPT ![s] = {}]
    /\ pc' = [pc EXCEPT ![s] = "idle"]
    /\ loc' = [loc EXCEPT ![s] = NoLoc]
    /\ UNCHANGED <<clock, audit, auditSeq, tempSeq, tampered, discipline, fcst>>

-----------------------------------------------------------------------------
\* Storage errors

\* The mutant of RolledBack that keeps the rows of the failed transaction.
RolledBackKept(table, rows) == table \cup rows

\* except psycopg2.Error: conn.rollback(); raise -- the table after it.
RolledBack(table, rows) == table

\* A statement before the commit raises psycopg2.Error: the SELECT, or the
\* INSERT after it read the clock and drew a SERIAL value, which stays drawn.
AuditInsertError(s) ==
    /\ pc[s] = "audit_read"
    /\ \E drew \in BOOLEAN :
         /\ auditSeq' = IF drew THEN auditSeq + 1 ELSE auditSeq
         /\ clock' = IF drew THEN Now ELSE clock
    /\ audit' = RolledBack(audit, pend[s])
    /\ ret' = [ret EXCEPT ![s] = ErrorRet(loc[s].doctor)]
    /\ pc' = [pc EXCEPT ![s] = "idle"]
    /\ loc' = [loc EXCEPT ![s] = NoLoc]
    /\ UNCHANGED <<temps, tempSeq, pend, tampered, discipline, fcst>>

\* conn.commit() raises psycopg2.Error.
AuditCommitError(s) ==
    /\ pc[s] = "audit_ins"
    /\ audit' = RolledBack(audit, pend[s])
    /\ pend' = [pend EXCEPT ![s] = {}]
    /\ ret' = [ret EXCEPT ![s] = ErrorRet(loc[s].doctor)]
    /\ pc' = [pc EXCEPT ![s] = "idle"]
    /\ loc' = [loc EXCEPT ![s] = NoLoc]
    /\ UNCHANGED <<clock, temps, auditSeq, tempSeq, tampered, discipline, fcst>>

TempInsertError(s) ==
    /\ pc[s] = "temp_read"
    /\ \E drew \in BOOLEAN :
         /\ tempSeq' = IF drew THEN tempSeq + 1 ELSE tempSeq
         /\ clock' = IF drew THEN Now ELSE clock
    /\ temps' = RolledBack(temps, pend[s])
    /\ ret' = [ret EXCEPT ![s] = ErrorRet(loc[s].doctor)]
    /\ pc' = [pc EXCEPT ![s] = "idle"]
    /\ loc' = [loc EXCEPT ![s] = NoLoc]
    /\ UNCHANGED <<audit, auditSeq, pend, tampered, discipline, fcst>>

TempCommitError(s) ==
    /\ pc[s] = "temp_ins"
    /\ temps' = RolledBack(temps, pend[s])
    /\ pend' = [pend EXCEPT ![s] = {}]
    /\ ret' = [ret EXCEPT ![s] = ErrorRet(loc[s].doctor)]
    /\ pc' = [pc EXCEPT ![s] = "idle"]
    /\ loc' = [loc EXCEPT ![s] = NoLoc]
    /\ UNCHANGED <<clock, audit, auditSeq, tempSeq, tampered, discipline, fcst>>

-----------------------------------------------------------------------------
\* verify_audit_trail as an operation

\* The mutant of AuditAfterVerify that deletes the entries it found invalid.
AuditAfterVerifyPurged(table, doctor, res) ==
    IF res.ok THEN table
    ELSE {r \in table : r.doctor_id # doctor \/ r.id < res.bad[1]}

\* The audit_trail table after the call: it runs one SELECT and closes the
\* connection without a write or a commit.
AuditAfterVerify(table, doctor, res) == table

\* One SELECT (a snapshot of the committed rows), the loop, the return.
VerifyAudit(s, doctor) ==
    /\ pc[s] = "idle"
    /\ LET entries == AuditEntries(doctor)
           res == VerifyResult(doctor, entries)
       IN  /\ ret' = [ret EXCEPT ![s] = VerifyRet(doctor, entries, res)]
           /\ audit' = AuditAfterVerify(audit, doctor, res)
    /\ UNCHANGED <<clock, temps, auditSeq, tempSeq, pc, loc, pend, tampered, discipline, fcst>>

-----------------------------------------------------------------------------
\* The application: sessions calling the operations concurrently.

AuditAppend(s) ==
    \/ \E d \in Doctors, a \in AuditActions, x \in AuditDetails : AuditSelectTail(s, d, a, x)
    \/ AuditInsert(s)
    \/ AuditCommit(s)
    \/ AuditInsertError(s)
    \/ AuditCommitError(s)

TempAppend(s) ==
    \/ \E d \in Doctors, v \in Devices, t \in Temperatures : TempSelectTail(s, d, v, t)
    \/ TempInsert(s)
    \/ TempCommit(s)
    \/ TempInsertError(s)
    \/ TempCommitError(s)

Verify(s) == \E d \in Doctors : VerifyAudit(s, d)

Next == \E s \in Sessions : AuditAppend(s) \/ TempAppend(s) \/ Verify(s)

Spec == Init /\ [][Next]_vars

\* Appends to one chain serialized; appends to one stream serialized.
SpecSerial == InitSerial /\ [][Next]_vars

SpecStreams == InitStreams /\ [][Next]_vars

-----------------------------------------------------------------------------
\* One write to audit_trail from outside the application (a tamperer with
\* access to the table): tampered records it, and no second one follows.

NonHashFields == {"timestamp", "action", "details", "doctor_id"}

TamperValues(r, field) ==
    CASE field = "timestamp" -> {r.timestamp + 1}
      [] field = "action" -> {"FORGED"}
      [] field = "details" -> {"forged"}
      [] field = "doctor_id" -> Doctors \ {r.doctor_id}

\* UPDATE audit_trail SET <field> = <value> WHERE id = <r.id>
TamperField(r, field, value) ==
    /\ tampered = <<>>
    /\ r \in audit
    /\ audit' = (audit \ {r}) \cup {[r EXCEPT ![field] = value]}
    /\ tampered' = Append(tampered, [id |-> r.id, doctor |-> r.doctor_id, field |-> field])
    /\ UNCHANGED <<temps, auditSeq, tempSeq, clock, pc, loc, pend, ret, discipline, fcst>>

\* UPDATE audit_trail SET current_hash = <the hash verify will calculate>
Rehash(r) ==
    /\ tampered = <<>>
    /\ r \in audit
    /\ audit' = (audit \ {r}) \cup
                {[r EXCEPT !.current_hash = CalculatedHash(r.doctor_id, r)]}
    /\ tampered' = Append(tampered, [id |-> r.id, doctor |-> r.doctor_id,
                                     field |-> "current_hash"])
    /\ UNCHANGED <<temps, auditSeq, tempSeq, clock, pc, loc, pend, ret, discipline, fcst>>

Tamper ==
    \E r \in audit :
        \/ \E field \in NonHashFields : \E value \in TamperValues(r, field) :
              TamperField(r, field, value)
        \/ Rehash(r)

NextTamper == (\E s \in Sessions : AuditAppend(s) \/ Verify(s)) \/ Tamper

SpecTamper == Init /\ [][NextTamper]_vars

SpecTamperSerial == InitSerial /\ [][NextTamper]_vars

-----------------------------------------------------------------------------
\* Properties of the hash chains

\* Each record's stored previous hash is the sentinel (first record) or the
\* stored current hash of the record before it, in id order.
AuditLinked(entries) ==
    \A i \in 1..Len(entries) :
        entries[i].previous_hash =
            IF i = 1 THEN Sentinel ELSE entries[i - 1].current_hash

TempLinked(entries) ==
    \A i \in 1..Len(entries) :
        entries[i].prev_hash =
            IF i = 1 THEN Sentinel ELSE entries[i - 1].current_hash

\* A session's append returns in this step (commit succeeded).
AppendReturns(s) ==
    pc[s] \in {"audit_ins", "temp_ins"} /\ pc'[s] = "idle" /\ ret'[s].kind = "hash"

\* A session's append fails in this step (rolled back).
AppendFails(s) == InFlight(s) /\ pc'[s] = "idle" /\ ret'[s].kind = "error"

C2_NoFork ==
    \A d \in Doctors :
        /\ \A r1, r2 \in OfDoctor(audit, d) :
              r1.id # r2.id => r1.previous_hash # r2.previous_hash
        /\ \A r1, r2 \in OfDoctor(temps, d) :
              r1.id # r2.id => r1.prev_hash # r2.prev_hash

\* C3: serialization reproduced at verify. Every verify of an audit chain
\* built only by add_audit_entry (appends one after another, nothing modified)
\* returns ok, no bad record, and one VALID status per record.
C3_VerifyAcceptsAppended ==
    \A s \in Sessions :
        ret[s].kind = "verify" =>
            /\ ret[s].ok
            /\ ret[s].bad = None
            /\ Len(ret[s].statuses) = Len(ret[s].entries)

\* C4: tamper detection. After one non-hash field of one stored record of an
\* untouched chain built by appends is mutated, verify of that record's
\* stream returns ok = false and names exactly that record.
C4_TamperLocalized ==
    (Len(tampered) = 1 /\ tampered[1].field \in NonHashFields) =>
        LET res == VerifyResult(tampered[1].doctor, AuditEntries(tampered[1].doctor))
        IN  ~res.ok /\ res.bad = Some(tampered[1].id)

\* Entry i of the fetched entries is a mismatch: its stored previous hash is
\* not the running hash, or its recalculated hash is not its stored one.
Mismatch(doctor, entries, i) ==
    \/ entries[i].previous_hash #
          (IF i = 1 THEN Sentinel ELSE entries[i - 1].current_hash)
    \/ CalculatedHash(doctor, entries[i]) # entries[i].current_hash

FirstMismatch(doctor, entries, k) ==
    /\ k \in 1..Len(entries)
    /\ Mismatch(doctor, entries, k)
    /\ \A j \in 1..(k - 1) : ~Mismatch(doctor, entries, j)

\* C5 (as amended): on the first mismatching record, verify returns
\* ok = false, that record's id, and statuses holding exactly the records
\* before it, in order, each VALID.
C5_FirstMismatchReported ==
    \A s \in Sessions :
        ret[s].kind = "verify" =>
            \A k \in 1..Len(ret[s].entries) :
                FirstMismatch(ret[s].doctor, ret[s].entries, k) =>
                    /\ ~ret[s].ok
                    /\ ret[s].bad = Some(ret[s].entries[k].id)
                    /\ ret[s].statuses =
                          [j \in 1..(k - 1) |-> ValidStatus(ret[s].entries[j])]

\* A verify found its first mismatch behind a non-empty valid prefix.
C5_Witness ==
    \E s \in Sessions :
        /\ ret[s].kind = "verify"
        /\ ~ret[s].ok
        /\ Len(ret[s].statuses) >= 1
        /\ FirstMismatch(ret[s].doctor, ret[s].entries, 2)

\* C5 as claimed: the value returned with ok = false is the record's index
\* within its stream (counted from 0 or from 1).
C5_BadIsStreamIndex ==
    \A s \in Sessions :
        ret[s].kind = "verify" =>
            \A k \in 1..Len(ret[s].entries) :
                FirstMismatch(ret[s].doctor, ret[s].entries, k) =>
                    ret[s].bad \in {Some(k - 1), Some(k)}

\* C6: verify of a stream with no records returns (true, absent, []).
C6_EmptyVerify ==
    \A s \in Sessions :
        (ret[s].kind = "verify" /\ ret[s].entries = <<>>) =>
            (ret[s].ok /\ ret[s].bad = None /\ ret[s].statuses = <<>>)

\* A verify of an empty stream returned while another stream holds records.
C6_Witness ==
    \E s \in Sessions :
        /\ ret[s].kind = "verify"
        /\ ret[s].entries = <<>>
        /\ OfDoctor(audit, ret[s].doctor) = {}
        /\ audit # {}

\* C7: verify is read-only and idempotent. A verify step leaves both tables
\* and both sequences as they were, and returns what any earlier verify of
\* the same stream returned on the same stored records.
C7_VerifyReadOnly ==
    [][\A s \in Sessions, d \in Doctors :
          VerifyAudit(s, d) =>
              /\ audit' = audit /\ temps' = temps
              /\ auditSeq' = auditSeq /\ tempSeq' = tempSeq
              /\ \A t \in Sessions :
                    (ret[t].kind = "verify" /\ ret[t].doctor = d
                       /\ ret[t].entries = AuditEntries(d)) =>
                        /\ ret'[s].ok = ret[t].ok
                        /\ ret'[s].bad = ret[t].bad
                        /\ ret'[s].statuses = ret[t].statuses]_vars

\* Two verifies of one non-empty stream have returned, on the same records.
C7_Witness ==
    \E s, t \in Sessions :
        /\ s # t
        /\ ret[s].kind = "verify" /\ ret[t].kind = "verify"
        /\ ret[s].doctor = ret[t].doctor
        /\ ret[s].entries # <<>>
        /\ ret[s].entries = ret[t].entries
        /\ ret[s].entries = AuditEntries(ret[s].doctor)

\* C8: monotonic append. No step removes or alters a stored record; a
\* successful append adds exactly one record, to its own chain; an append
\* that fails leaves both tables exactly as they were.
C8_MonotonicAppend ==
    [][/\ audit \subseteq audit'
       /\ temps \subseteq temps'
       /\ \A s \in Sessions :
            AppendReturns(s) =>
                /\ Cardinality(audit') + Cardinality(temps')
                      = Cardinality(audit) + Cardinality(temps) + 1
                /\ \A r \in (audit' \ audit) \cup (temps' \ temps) :
                      r.doctor_id = loc[s].doctor
                /\ pc[s] = "audit_ins" => temps' = temps
                /\ pc[s] = "temp_ins" => audit' = audit
       /\ \A s \in Sessions :
            AppendFails(s) => (audit' = audit /\ temps' = temps)]_vars

\* An append has failed after its INSERT and another has succeeded.
C8_Witness ==
    \E s, t \in Sessions :
        /\ ret[s].kind = "error"
        /\ ret[t].kind = "hash"
        /\ auditSeq + tempSeq = 2
        /\ Cardinality(audit) + Cardinality(temps) = 1

\* C9: independent streams. With the appends to one stream (one subject's
\* audit trail, one device's readings) made one after another and appends to
\* different streams interleaved freely, no two records of a chain carry the
\* same previous hash.
C9_StreamsIndependent ==
    \A d \in Doctors :
        /\ \A r1, r2 \in OfDoctor(audit, d) :
              r1.id # r2.id => r1.previous_hash # r2.previous_hash
        /\ \A r1, r2 \in OfDoctor(temps, d) :
              r1.id # r2.id => r1.prev_hash # r2.prev_hash

\* C10: a verify taken while an append to the same untampered stream is in
\* flight returns ok = true with one status for every committed record.
C10_VerifyDuringAppend ==
    [][\A s \in Sessions, d \in Doctors :
          (/\ VerifyAudit(s, d)
           /\ \E t \in Sessions \ {s} :
                 pc[t] \in {"audit_read", "audit_ins"} /\ loc[t].doctor = d) =>
              /\ ret'[s].ok
              /\ Len(ret'[s].statuses) = Len(AuditEntries(d))]_vars

-----------------------------------------------------------------------------
\* Forecasting and breach classification (src/predictor.py)
\*
\* Temperatures are integers in hundredths of a degree Celsius, the training
\* error (MAE) is in thousandths of a degree, accuracies are in hundredths of a
\* percent and minutes are integers.  An Optional is None or Some(value).
\* The arithmetic of the naive ramp and of every comparison is exact on these
\* grids; floating-point rounding error is not modelled.

\* TemperaturePredictor.__init__
SafeMin == 200
SafeMax == 800
PredictionHorizon == 120
SampleInterval == 5

\* Numbers written in predict_temperature.
MinReadings == 20
DefaultLastTemp == 500
RampStep == 5
NaiveAccuracy == 7500
MaxLags == 12
MinTrainingRows == 5
InfeasibleAccuracy == 7500
AccuracyFloor == 7500
FullAccuracy == 10000
DiurnalShift == 5

\* Numbers written in check_breach_risk.
CriticalWithin == 60
WarningMargin == 50
WarningWithin == 120

\* Longest reading history drawn as an input.
MaxHistory == 37

ChainVars == <<audit, temps, auditSeq, tempSeq, clock, pc, loc, pend, ret, tampered,
               discipline>>

\* The mutant of Steps that counts one step more.
StepsInclusive == PredictionHorizon \div SampleInterval + 1

\* steps = self.prediction_horizon // self.sample_interval
Steps == PredictionHorizon \div SampleInterval

\* ---- check_breach_risk ----

\* The mutant of First that takes the largest index.
Last(indices) == CHOOSE i \in indices : \A j \in indices : i >= j

\* indices[0] of a non-empty np.where result: the smallest index.
First(indices) == CHOOSE i \in indices : \A j \in indices : i <= j

\* The mutant of UpperBreachIndices that counts a value equal to safe_max.
UpperBreachIndicesInclusive(predictions) ==
    {i \in 1..Len(predictions) : predictions[i] >= SafeMax}

\* Indices are 1-based here: index i is the code's first_breach_idx + 1.
UpperBreachIndices(predictions) ==
    {i \in 1..Len(predictions) : predictions[i] > SafeMax}

LowerBreachIndices(predictions) ==
    {i \in 1..Len(predictions) : predictions[i] < SafeMin}

UpperWarningIndices(predictions) ==
    {i \in 1..Len(predictions) : predictions[i] > SafeMax - WarningMargin}

\* The mutant of LowerWarningIndices without the margin.
LowerWarningIndicesNoMargin(predictions) ==
    {i \in 1..Len(predictions) : predictions[i] < SafeMin}

LowerWarningIndices(predictions) ==
    {i \in 1..Len(predictions) : predictions[i] < SafeMin + WarningMargin}

\* (first_breach_idx + 1) * self.sample_interval
MinutesAt(i) == i * SampleInterval

\* The mutant of Severity that is CRITICAL only before 60 minutes.
SeverityStrict(minutes) == IF minutes < CriticalWithin THEN "CRITICAL" ELSE "WARNING"

Severity(minutes) == IF minutes <= CriticalWithin THEN "CRITICAL" ELSE "WARNING"

Alert(alert_type, severity, minutes) ==
    [alert_type |-> Some(alert_type), severity |-> Some(severity),
     minutes |-> Some(minutes)]

\* The mutant of CheckBreachRisk that looks for a lower breach first.
CheckBreachRiskLowerFirst(predictions, current_temp) ==
    IF predictions = None THEN NoAlert
    ELSE LET p == predictions[1] IN
         IF LowerBreachIndices(p) # {}
         THEN LET m == MinutesAt(First(LowerBreachIndices(p)))
              IN  Alert("LOW_TEMP", Severity(m), m)
         ELSE IF UpperBreachIndices(p) # {}
         THEN LET m == MinutesAt(First(UpperBreachIndices(p)))
              IN  Alert("HIGH_TEMP", Severity(m), m)
         ELSE IF /\ UpperWarningIndices(p) # {}
                 /\ MinutesAt(First(UpperWarningIndices(p))) <= WarningWithin
         THEN Alert("HIGH_TEMP", "WARNING", MinutesAt(First(UpperWarningIndices(p))))
         ELSE IF /\ LowerWarningIndices(p) # {}
                 /\ MinutesAt(First(LowerWarningIndices(p))) <= WarningWithin
         THEN Alert("LOW_TEMP", "WARNING", MinutesAt(First(LowerWarningIndices(p))))
         ELSE NoAlert

\* The mutant of CheckBreachRisk that grades an upper-margin warning by its minutes.
CheckBreachRiskWarningGraded(predictions, current_temp) ==
    IF predictions = None THEN NoAlert
    ELSE LET p == predictions[1] IN
         IF UpperBreachIndices(p) # {}
         THEN LET m == MinutesAt(First(UpperBreachIndices(p)))
              IN  Alert("HIGH_TEMP", Severity(m), m)
         ELSE IF LowerBreachIndices(p) # {}
         THEN LET m == MinutesAt(First(LowerBreachIndices(p)))
              IN  Alert("LOW_TEMP", Severity(m), m)
         ELSE IF /\ UpperWarningIndices(p) # {}
                 /\ MinutesAt(First(UpperWarningIndices(p))) <= WarningWithin
         THEN Alert("HIGH_TEMP", Severity(MinutesAt(First(UpperWarningIndices(p)))),
                    MinutesAt(First(UpperWarningIndices(p))))
         ELSE IF /\ LowerWarningIndices(p) # {}
                 /\ MinutesAt(First(LowerWarningIndices(p))) <= WarningWithin
         THEN Alert("LOW_TEMP", "WARNING", MinutesAt(First(LowerWarningIndices(p))))
         ELSE NoAlert

\* The mutant of CheckBreachRisk that reports a current temperature above safe_max.
CheckBreachRiskCurrentFirst(predictions, current_temp) ==
    IF predictions = None THEN NoAlert
    ELSE IF current_temp > SafeMax THEN Alert("HIGH_TEMP", "CRITICAL", 0)
    ELSE LET p == predictions[1] IN
         IF UpperBreachIndices(p) # {}
         THEN LET m == MinutesAt(First(UpperBreachIndices(p)))
              IN  Alert("HIGH_TEMP", Severity(m), m)
         ELSE IF LowerBreachIndices(p) # {}
         THEN LET m == MinutesAt(First(LowerBreachIndices(p)))
              IN  Alert("LOW_TEMP", Severity(m), m)
         ELSE IF /\ UpperWarningIndices(p) # {}
                 /\ MinutesAt(First(UpperWarningIndices(p))) <= WarningWithin
         THEN Alert("HIGH_TEMP", "WARNING", MinutesAt(First(UpperWarningIndices(p))))
         ELSE IF /\ LowerWarningIndices(p) # {}
                 /\ MinutesAt(First(LowerWarningIndices(p))) <= WarningWithin
         THEN Alert("LOW_TEMP", "WARNING", MinutesAt(First(LowerWarningIndices(p))))
         ELSE NoAlert

CheckBreachRisk(predictions, current_temp) ==
    IF predictions = None THEN NoAlert
    ELSE LET p == predictions[1] IN
         IF UpperBreachIndices(p) # {}
         THEN LET m == MinutesAt(First(UpperBreachIndices(p)))
              IN  Alert("HIGH_TEMP", Severity(m), m)
         ELSE IF LowerBreachIndices(p) # {}
         THEN LET m == MinutesAt(First(LowerBreachIndices(p)))
              IN  Alert("LOW_TEMP", Severity(m), m)
         ELSE IF /\ UpperWarningIndices(p) # {}
                 /\ MinutesAt(First(UpperWarningIndices(p))) <= WarningWithin
         THEN Alert("HIGH_TEMP", "WARNING", MinutesAt(First(UpperWarningIndices(p))))
         ELSE IF /\ LowerWarningIndices(p) # {}
                 /\ MinutesAt(First(LowerWarningIndices(p))) <= WarningWithin
         THEN Alert("LOW_TEMP", "WARNING", MinutesAt(First(LowerWarningIndices(p))))
         ELSE NoAlert

\* ---- predict_temperature ----

\* The mutant of LastTemp without the default 5.0.
LastTempNoDefault(readings) ==
    IF Len(readings) > 0 THEN readings[Len(readings)] ELSE 0

LastTemp(readings) ==
    IF Len(readings) > 0 THEN readings[Len(readings)] ELSE DefaultLastTemp

\* The mutant of NaiveForecast whose ramp starts at the last reading.
NaiveForecastFromLast(last_temp) ==
    [i \in 1..Steps |-> last_temp + (i - 1) * RampStep]

\* [last_temp + i*0.05 for i in range(1, steps + 1)]
NaiveForecast(last_temp) ==
    [i \in 1..Steps |-> last_temp + i * RampStep]

\* series.ewm(alpha=0.3).mean() with pandas' default adjust=True:
\* y[t] = sum_i 0.7^i x[t-i] / sum_i 0.7^i, here by the recurrences
\* num[t] = 0.7 num[t-1] + x[t], den[t] = 0.7 den[t-1] + 1 in fixed point
\* (four more decimal digits), the quotient rounded to the temperature grid.
\* Ewm gives the smoothed values from reading t on; num and den are the sums
\* up to reading t - 1.
RECURSIVE Ewm(_, _, _, _)
Ewm(readings, t, num, den) ==
    IF t > Len(readings) THEN <<>>
    ELSE LET num_t == (7 * num) \div 10 + readings[t] * 10000
             den_t == (7 * den) \div 10 + 10000
         IN  <<(2 * num_t + den_t) \div (2 * den_t)>> \o Ewm(readings, t + 1, num_t, den_t)

SmoothTemperature(readings) == Ewm(readings, 1, 0, 0)

\* lags = min(12, len(df) // 3)
Lags(n) == IF MaxLags <= n \div 3 THEN MaxLags ELSE n \div 3

\* The mutant of Infeasible that asks for 20 rows after the lags.
InfeasibleByMinReadings(n) == n < Lags(n) + MinReadings

\* if len(series) < lags + 5: return None, elapsed, 75.0
Infeasible(n) == n < Lags(n) + MinTrainingRows

\* Ridge.fit validates its input and raises ValueError on a NaN or infinite
\* entry of X or y; predict_temperature has no handler around the call.
FitRaises(finite) == ~finite

\* The mutant of Accuracy without the floor of 75.0.
AccuracyNoFloor(mae) == FullAccuracy - mae

\* max(75.0, 100 - (mae * 10)): mae*10 degrees in thousandths is mae in
\* hundredths, the grid of the accuracy.
Accuracy(mae) ==
    IF AccuracyFloor >= FullAccuracy - mae THEN AccuracyFloor ELSE FullAccuracy - mae

\* round(accuracy, 1): to the nearest tenth of a percent, a tie to the even one.
Round1(x) ==
    LET q == x \div 10
        r == x % 10
    IN  IF r < 5 THEN 10 * q
        ELSE IF r > 5 THEN 10 * (q + 1)
        ELSE IF q % 2 = 0 THEN 10 * q ELSE 10 * (q + 1)

\* The day/night adjustment of one projection step.
DiurnalAdjustment(current_hour) ==
    IF 20 <= current_hour \/ current_hour < 6 THEN 0 - DiurnalShift
    ELSE IF 10 <= current_hour /\ current_hour < 16 THEN DiurnalShift
    ELSE 0

\* model.predict(features)[0].  The fitted coefficients are the outcome of
\* scikit-learn's solver; the model stands for them by the family of
\* predictors "the window's newest value plus an intercept", the intercept
\* chosen at fit time.
ModelPredict(model, current_window) == current_window[Len(current_window)] + model

\* The mutant of Slide that keeps the oldest value.
SlideKeepOldest(current_window, next_temp) == current_window \o <<next_temp>>

\* current_window[1:] + [next_temp]
Slide(current_window, next_temp) == Tail(current_window) \o <<next_temp>>

\* The projection loop from its k-th iteration on; hours[k] is what
\* pd.Timestamp.now().hour returns in iteration k.
RECURSIVE Project(_, _, _, _)
Project(model, current_window, hours, k) ==
    IF k > Steps THEN <<>>
    ELSE LET next_temp == ModelPredict(model, current_window) + DiurnalAdjustment(hours[k])
         IN  <<next_temp>> \o Project(model, Slide(current_window, next_temp), hours, k + 1)

\* The values current_window takes in that loop: the one iteration k starts
\* with, then the one each iteration from k on leaves.
RECURSIVE ProjectWindows(_, _, _, _)
ProjectWindows(model, current_window, hours, k) ==
    IF k > Steps THEN <<current_window>>
    ELSE LET next_temp == ModelPredict(model, current_window) + DiurnalAdjustment(hours[k])
         IN  <<current_window>> \o
             ProjectWindows(model, Slide(current_window, next_temp), hours, k + 1)

\* series.iloc[-lags:].tolist()
CurrentWindow(series, lags) == SubSeq(series, Len(series) - lags + 1, Len(series))

\* Inputs of the forecast: histories that start at a temperature and move by
\* a constant step per reading; a history that is not finite has NaN as its
\* first reading (the value kept in the sequence is then not used).
HistoryStarts == {500, 790}
HistorySlopes == {0 - 5, 0, 5}
History(n, start, slope) == [k \in 1..n |-> start + slope * (k - 1)]
Histories ==
    {h \in {[readings |-> History(n, start, slope), finite |-> f] :
                n \in 0..MaxHistory, start \in HistoryStarts,
                slope \in HistorySlopes, f \in BOOLEAN} :
        h.finite \/ Len(h.readings) >= 2}

\* Outcomes of the fit (training MAE, intercept) and clock readings of a call.
MAEs == {0, 5, 15, 1000, 2500, 2600}
Models == {0 - 10, 0, 10}
Hours == {5, 9, 15, 19, 23}
HourChanges == {Steps \div 2, Steps}
ClockHours(hour, change) ==
    [k \in 1..Steps |-> IF k <= change THEN hour ELSE (hour + 1) % 24]
CurrentTemps == {500, 900}

\* Inputs of the classifier alone: forecasts that sit at one temperature except
\* at two steps, of the length predict_temperature produces and one step
\* longer (whose last step lies beyond 120 minutes).
ForecastValues ==
    {SafeMin - 1, SafeMin, SafeMin + WarningMargin - 1, SafeMin + WarningMargin, 500,
     SafeMax - WarningMargin, SafeMax - WarningMargin + 1, SafeMax, SafeMax + 1}
ForecastBases == {SafeMin + WarningMargin, 500, SafeMax - WarningMargin}
ForecastLengths == {Steps, Steps + 1}
ForecastPositions ==
    {1, 2, CriticalWithin \div SampleInterval, CriticalWithin \div SampleInterval + 1,
     Steps, Steps + 1}
TwoPoint(n, base, i, v, j, w) ==
    [k \in 1..n |-> IF k = i THEN v ELSE IF k = j THEN w ELSE base]
ForecastInputs ==
    {None} \cup
    {Some(TwoPoint(n, base, i, v, j, w)) :
        n \in ForecastLengths, base \in ForecastBases,
        i \in ForecastPositions, v \in ForecastValues,
        j \in ForecastPositions, w \in ForecastValues}

InitForecast ==
    /\ Start
    /\ discipline = "none"
    /\ fcst \in {[NoForecast EXCEPT !.stage = "history", !.readings = h.readings,
                                    !.finite = h.finite] : h \in Histories}

InitBreach ==
    /\ Start
    /\ discipline = "none"
    /\ fcst \in {[NoForecast EXCEPT !.stage = "forecast", !.path = "given",
                                    !.predictions = p] : p \in ForecastInputs}

\* predict_temperature with fewer than 20 readings.
PredictNaive ==
    /\ fcst.stage = "history"
    /\ Len(fcst.readings) < MinReadings
    /\ fcst' = [fcst EXCEPT !.stage = "forecast", !.path = "naive",
                            !.predictions = Some(NaiveForecast(LastTemp(fcst.readings))),
                            !.accuracy = NaiveAccuracy]
    /\ UNCHANGED ChainVars

\* predict_temperature with 20 readings or more.
PredictModel ==
    /\ fcst.stage = "history"
    /\ Len(fcst.readings) >= MinReadings
    /\ LET n == Len(fcst.readings)
           series == SmoothTemperature(fcst.readings)
           lags == Lags(n)
       IN  IF Infeasible(n)
           THEN fcst' = [fcst EXCEPT !.stage = "forecast", !.path = "infeasible",
                                     !.predictions = None,
                                     !.accuracy = InfeasibleAccuracy]
           ELSE IF FitRaises(fcst.finite)
           THEN fcst' = [fcst EXCEPT !.stage = "raised", !.path = "raised",
                                     !.lags = lags]
           ELSE \E mae \in MAEs, model \in Models, hour \in Hours, change \in HourChanges :
                  fcst' = [fcst EXCEPT
                             !.stage = "forecast", !.path = "model", !.mae = mae,
                             !.lags = lags,
                             !.windows =
                                 ProjectWindows(model, CurrentWindow(series, lags),
                                                ClockHours(hour, change), 1),
                             !.predictions =
                                 Some(Project(model, CurrentWindow(series, lags),
                                              ClockHours(hour, change), 1)),
                             !.accuracy = Round1(Accuracy(mae))]
    /\ UNCHANGED ChainVars

\* check_breach_risk on the forecast, as src/app.py calls it after
\* predict_temperature.
CheckBreach ==
    /\ fcst.stage = "forecast"
    /\ \E current_temp \in CurrentTemps :
          fcst' = [fcst EXCEPT !.stage = "classified", !.current_temp = current_temp,
                               !.alert = CheckBreachRisk(fcst.predictions, current_temp)]
    /\ UNCHANGED ChainVars

NextForecast == PredictNaive \/ PredictModel \/ CheckBreach

SpecForecast == InitForecast /\ [][NextForecast]_vars

\* A second check_breach_risk call on the same forecast with another
\* current_temp (the page is rendered again after a new reading).
CheckBreachAgain ==
    /\ fcst.stage = "classified"
    /\ \E current_temp \in CurrentTemps \ {fcst.current_temp} :
          fcst' = [fcst EXCEPT !.stage = "reclassified",
                               !.current_temp_again = current_temp,
                               !.alert_again = CheckBreachRisk(fcst.predictions,
                                                               current_temp)]
    /\ UNCHANGED ChainVars

NextBreach == CheckBreach \/ CheckBreachAgain

SpecBreach == InitBreach /\ [][NextBreach]_vars

-----------------------------------------------------------------------------
\* Properties of the forecast and of the breach classification

\* The forecast vector a finished call holds (when it holds one).
Forecast == fcst.predictions[1]
Classified == fcst.stage = "classified" /\ fcst.predictions # None
Returned == fcst.stage \in {"forecast", "classified"}
OutOfRange(v) == v < SafeMin \/ v > SafeMax

\* C11: whenever some forecast value is strictly above safe_max the result is
\* HIGH_TEMP, whatever lies at earlier indices; and whenever some value is
\* outside [safe_min, safe_max] the result is a breach result: it is present
\* and its minutes point at a value beyond a limit, not at one that is only
\* inside a warning margin.
C11_BreachPriority ==
    Classified =>
        /\ (\E i \in 1..Len(Forecast) : Forecast[i] > SafeMax)
              => fcst.alert.alert_type = Some("HIGH_TEMP")
        /\ (\E i \in 1..Len(Forecast) : OutOfRange(Forecast[i]))
              => /\ fcst.alert.minutes # None
                 /\ \E i \in 1..Len(Forecast) :
                       /\ fcst.alert.minutes = Some(i * 5)
                       /\ OutOfRange(Forecast[i])

\* C11 witness: a value below safe_min precedes a value above safe_max and
\* the result is HIGH_TEMP, timed at the later index.
C11_Witness ==
    /\ Classified
    /\ \E i, j \in 1..Len(Forecast) :
          /\ i < j
          /\ Forecast[i] < SafeMin
          /\ Forecast[j] > SafeMax
          /\ fcst.alert.alert_type = Some("HIGH_TEMP")
          /\ fcst.alert.minutes = Some(j * 5)

\* C12: a forecast whose maximum is exactly safe_max is no upper breach (the
\* result is not HIGH_TEMP/CRITICAL), one whose minimum is exactly safe_min is
\* no lower breach (not LOW_TEMP/CRITICAL), and a forecast with every value in
\* [safe_min + 0.5, safe_max - 0.5], the two margins included, gives no alert.
C12_BoundaryStrictness ==
    Classified =>
        /\ (/\ \A i \in 1..Len(Forecast) : Forecast[i] <= 800
            /\ \E i \in 1..Len(Forecast) : Forecast[i] = 800)
              => ~(/\ fcst.alert.alert_type = Some("HIGH_TEMP")
                   /\ fcst.alert.severity = Some("CRITICAL"))
        /\ (/\ \A i \in 1..Len(Forecast) : Forecast[i] >= 200
            /\ \E i \in 1..Len(Forecast) : Forecast[i] = 200)
              => ~(/\ fcst.alert.alert_type = Some("LOW_TEMP")
                   /\ fcst.alert.severity = Some("CRITICAL"))
        /\ (\A i \in 1..Len(Forecast) : 250 <= Forecast[i] /\ Forecast[i] <= 750)
              => fcst.alert = NoAlert

\* C12 witness: the maximum, exactly safe_max, is reached within the first
\* hour and the result is only the HIGH_TEMP warning of the margin.
C12_Witness ==
    /\ Classified
    /\ \A i \in 1..Len(Forecast) : Forecast[i] <= 800 /\ Forecast[i] >= 200
    /\ \E i \in 1..12 : Forecast[i] = 800
    /\ fcst.alert.alert_type = Some("HIGH_TEMP")
    /\ fcst.alert.severity = Some("WARNING")

\* C13: when some forecast value is outside [safe_min, safe_max], minutes is
\* 5 times the 1-based position of the first value beyond the reported limit
\* (the upper limit when any value exceeds it, else the lower one), hence a
\* positive multiple of 5, and severity is CRITICAL exactly when minutes <= 60.
C13_BreachMinutes ==
    (Classified /\ \E i \in 1..Len(Forecast) : OutOfRange(Forecast[i])) =>
        LET high == \E i \in 1..Len(Forecast) : Forecast[i] > 800
            beyond(i) == IF high THEN Forecast[i] > 800 ELSE Forecast[i] < 200
        IN  /\ fcst.alert.alert_type = Some(IF high THEN "HIGH_TEMP" ELSE "LOW_TEMP")
            /\ fcst.alert.minutes # None
            /\ fcst.alert.severity # None
            /\ LET minutes == fcst.alert.minutes[1]
               IN  /\ minutes > 0
                   /\ minutes % 5 = 0
                   /\ beyond(minutes \div 5)
                   /\ \A i \in 1..(minutes \div 5 - 1) : ~beyond(i)
                   /\ (fcst.alert.severity = Some("CRITICAL")) <=> (minutes <= 60)
                   /\ (fcst.alert.severity = Some("WARNING")) <=> (minutes > 60)

\* C13 witness: a breach exactly 60 minutes out, reported CRITICAL.
C13_Witness ==
    /\ Classified
    /\ fcst.alert.minutes = Some(60)
    /\ fcst.alert.severity = Some("CRITICAL")
    /\ OutOfRange(Forecast[12])

\* C14: for a forecast of 24 steps the result is (None, None, None) if and
\* only if every value v has safe_min + 0.5 <= v <= safe_max - 0.5, and the
\* three components of a result are always absent together or present
\* together.
C14_NoAlertIff ==
    /\ (Classified /\ Len(Forecast) = 24) =>
          ((fcst.alert = NoAlert)
              <=> (\A i \in 1..24 : 250 <= Forecast[i] /\ Forecast[i] <= 750))
    /\ fcst.stage = "classified" =>
          \/ fcst.alert = NoAlert
          \/ /\ fcst.alert.alert_type # None
             /\ fcst.alert.severity # None
             /\ fcst.alert.minutes # None

\* C14 witness: a forecast that touches both margins exactly and stays
\* inside them gets no alert.
C14_Witness ==
    /\ Classified
    /\ Len(Forecast) = 24
    /\ \E i, j \in 1..24 : Forecast[i] = 250 /\ Forecast[j] = 750
    /\ \A i \in 1..24 : 250 <= Forecast[i] /\ Forecast[i] <= 750
    /\ fcst.alert = NoAlert

\* C15: for a history of n readings, 1 <= n < 20, predict_temperature
\* returns on the naive path (no model fitted) a forecast of exactly 24 values
\* whose k-th value is the last reading + 0.05*k, with accuracy exactly 75.0.
C15_NaiveRamp ==
    (Returned /\ 1 <= Len(fcst.readings) /\ Len(fcst.readings) < 20) =>
        /\ fcst.path = "naive"
        /\ fcst.predictions # None
        /\ Len(Forecast) = 24
        /\ \A k \in 1..24 : Forecast[k] = fcst.readings[Len(fcst.readings)] + 5 * k
        /\ fcst.accuracy = 7500

\* C15 witness: a call with 19 readings has returned.
C15_Witness ==
    /\ Returned
    /\ Len(fcst.readings) = 19
    /\ fcst.predictions # None

\* C16 as stated: for an empty history the forecast is absent.
C16_EmptyIsAbsent ==
    (fcst.stage # "history" /\ fcst.stage # "off" /\ Len(fcst.readings) = 0) =>
        fcst.predictions = None

\* C16 amended: for an empty history predict_temperature raises nothing and
\* returns the naive ramp from the default 5.0: 24 values, the k-th
\* 5.0 + 0.05*k, accuracy 75.0.
C16_EmptyDefaultRamp ==
    (fcst.stage # "history" /\ fcst.stage # "off" /\ Len(fcst.readings) = 0) =>
        /\ fcst.stage # "raised"
        /\ fcst.predictions # None
        /\ Len(Forecast) = 24
        /\ \A k \in 1..24 : Forecast[k] = 500 + 5 * k
        /\ fcst.accuracy = 7500

\* C16 witness: a call with no reading has returned.
C16_Witness ==
    /\ Returned
    /\ Len(fcst.readings) = 0
    /\ fcst.path = "naive"

\* C17: a failure of the model fit inside predict_temperature never escapes
\* the call; the call returns the absent forecast with accuracy 75.0.
C17_FitFailureCaught ==
    /\ fcst.stage # "raised"
    /\ (Returned /\ ~fcst.finite /\ Len(fcst.readings) >= 20) =>
          (fcst.predictions = None /\ fcst.accuracy = 7500)

\* C18: every forecast vector predict_temperature returns, on the naive path
\* and on the model path, has exactly horizon / sample_interval = 24 entries.
C18_ForecastLength ==
    (Returned /\ fcst.path \in {"naive", "model", "infeasible"}
              /\ fcst.predictions # None) =>
        /\ Len(Forecast) = 120 \div 5
        /\ Len(Forecast) = 24

\* C18 witness: the model path has returned a forecast vector.
C18_Witness ==
    /\ Returned
    /\ fcst.path = "model"
    /\ fcst.predictions # None
    /\ Len(fcst.readings) > 20

\* C19: the accuracy predict_temperature returns is between 75.0 and 100.0;
\* it is exactly 75.0 on the naive and the infeasible path, and on the model
\* path it is max(75.0, 100 - 10*MAE) rounded to one decimal.
C19_AccuracyRange ==
    (Returned /\ fcst.path \in {"naive", "model", "infeasible"}) =>
        /\ 7500 <= fcst.accuracy
        /\ fcst.accuracy <= 10000
        /\ fcst.path \in {"naive", "infeasible"} => fcst.accuracy = 7500
        /\ fcst.path = "model" =>
              LET raw == 10000 - fcst.mae
                  floored == IF raw < 7500 THEN 7500 ELSE raw
              IN  /\ fcst.accuracy % 10 = 0
                  /\ fcst.accuracy - floored <= 5
                  /\ floored - fcst.accuracy <= 5

\* C19 witness: the model path returned with a training MAE above 2.5, where
\* the floor of 75.0 decides the accuracy.
C19_Witness ==
    /\ Returned
    /\ fcst.path = "model"
    /\ fcst.mae > 2500
    /\ fcst.accuracy = 7500

-----------------------------------------------------------------------------
\* Properties of the stored temperature logs

\* The hash recomputed from the fields a temperature_logs row stores, with the
\* formatting add_temperature_log used (isoformat timestamp, float text).
RecomputedTempHash(r) ==
    SHA256(TempDataString(IsoFormat(r.timestamp), r.doctor_id, r.device_id,
                          FloatText(r.temperature), r.vaccine_type, r.location,
                          r.prev_hash))

\* C22: for every stored temperature log, the hash recomputed from the stored
\* payload fields (the temperature as stored with two decimals) and the
\* stored prev_hash equals the stored current_hash, whatever the input
\* temperature was.
C22_StoredTempHashRecomputes ==
    \A r \in temps : RecomputedTempHash(r) = r.current_hash

-----------------------------------------------------------------------------
\* Further properties of verify_audit_trail

\* C29: when the entries a verify call fetched hold two records with the same
\* previous_hash (a fork), the call returns ok = false, reports the record
\* with the later id of the pair, and lists the earlier one as valid.
C29_ForkDetected ==
    \A s \in Sessions :
        ret[s].kind = "verify" =>
            \A i, j \in 1..Len(ret[s].entries) :
                (i < j /\ ret[s].entries[i].previous_hash = ret[s].entries[j].previous_hash)
                    => /\ ret[s].ok = FALSE
                       /\ ret[s].bad = Some(ret[s].entries[j].id)
                       /\ \E k \in 1..Len(ret[s].statuses) :
                             ret[s].statuses[k].id = ret[s].entries[i].id

-----------------------------------------------------------------------------
\* One deletion from audit_trail from outside the application; like the
\* write above it is recorded in tampered and no second one follows.

\* Whether row r has a successor in its trail.
HasSuccessor(r) == \E o \in OfDoctor(audit, r.doctor_id) : o.id > r.id

\* DELETE FROM audit_trail WHERE id = <r.id>
DeleteRow(r) ==
    /\ tampered = <<>>
    /\ r \in audit
    /\ audit' = audit \ {r}
    /\ tampered' = Append(tampered,
                          [id |-> r.id, doctor |-> r.doctor_id,
                           field |-> IF HasSuccessor(r) THEN "deleted" ELSE "deleted_tail"])
    /\ UNCHANGED <<temps, auditSeq, tempSeq, clock, pc, loc, pend, ret, discipline, fcst>>

Delete == \E r \in audit : DeleteRow(r)

NextDelete == (\E s \in Sessions : AuditAppend(s) \/ Verify(s)) \/ Delete

SpecDelete == InitLong /\ [][NextDelete]_vars

\* C30: a verify call that runs after a record with a successor was deleted
\* from the trail returns ok = false and reports that successor (the first
\* fetched record with a larger id than the deleted one).
C30_DeletionReportedAtSuccessor ==
    \A s \in Sessions :
        (/\ ret[s].kind = "verify"
         /\ tampered # <<>>
         /\ tampered[1].field = "deleted"
         /\ tampered[1].doctor = ret[s].doctor
         /\ \A i \in 1..Len(ret[s].entries) : ret[s].entries[i].id # tampered[1].id
         /\ \E i \in 1..Len(ret[s].entries) : ret[s].entries[i].id > tampered[1].id)
            => LET later == {i \in 1..Len(ret[s].entries) :
                                ret[s].entries[i].id > tampered[1].id}
                   succ == CHOOSE i \in later : \A j \in later : i <= j
               IN  /\ ret[s].ok = FALSE
                   /\ ret[s].bad = Some(ret[s].entries[succ].id)

-----------------------------------------------------------------------------
\* get_action_suggestions (src/predictor.py)
\*
\* The texts are the source's, without the pictograph that opens the first
\* line of a list.

HighCriticalActions ==
    <<"IMMEDIATE ACTION REQUIRED",
      "Transfer vaccines to backup cooler immediately",
      "Add maximum ice packs to all compartments",
      "Move container to air-conditioned area (if available)",
      "Notify supervisor immediately",
      "Document the incident with photos if possible",
      "Prepare for emergency vaccine transfer">>

HighWarningActions ==
    <<"PREVENTIVE ACTION NEEDED",
      "Add extra ice packs to vaccine carrier",
      "Move container to cooler location",
      "Monitor temperature every 15 minutes",
      "Prepare backup storage unit",
      "Check if more cooling is available",
      "Inform team about potential issue">>

LowCriticalActions ==
    <<"IMMEDIATE ACTION REQUIRED",
      "Remove some ice packs immediately",
      "Move container to warmer area",
      "Use temperature stabilizers if available",
      "Notify supervisor immediately",
      "Check for vaccine freezing damage",
      "Prepare warming packs">>

LowWarningActions ==
    <<"PREVENTIVE ACTION NEEDED",
      "Reduce number of ice packs",
      "Monitor temperature closely (every 10 minutes)",
      "Adjust container insulation",
      "Prepare warming packs nearby",
      "Check ambient temperature",
      "Consider moving to slightly warmer area">>

GenericActions ==
    <<"Continue monitoring temperature",
      "Maintain current storage conditions",
      "Check sensor connections",
      "Document current status">>

\* The nested dictionary: the keys of the outer one, and the entry of a pair
\* of keys.
ActionKeys == {Some("HIGH_TEMP"), Some("LOW_TEMP")}
SeverityKeys == {Some("CRITICAL"), Some("WARNING")}
ActionsEntry(alert_type, severity) ==
    IF alert_type = Some("HIGH_TEMP")
    THEN IF severity = Some("CRITICAL") THEN HighCriticalActions ELSE HighWarningActions
    ELSE IF severity = Some("CRITICAL") THEN LowCriticalActions ELSE LowWarningActions

\* The mutant of GetActionSuggestions whose default covers an unknown alert type only.
GetActionSuggestionsTypeDefaultOnly(alert_type, severity) ==
    IF alert_type \notin ActionKeys THEN GenericActions
    ELSE IF severity \notin SeverityKeys THEN <<>>
    ELSE ActionsEntry(alert_type, severity)

\* actions.get(alert_type, {}).get(severity, [the four generic actions])
GetActionSuggestions(alert_type, severity) ==
    IF alert_type \notin ActionKeys THEN GenericActions
    ELSE IF severity \notin SeverityKeys THEN GenericActions
    ELSE ActionsEntry(alert_type, severity)

\* Inputs: the known keys, None, and strings that are no key.
AlertTypeInputs ==
    {None, Some("HIGH_TEMP"), Some("LOW_TEMP"), Some("high_temp"), Some("HIGH"),
     Some(""), Some("NORMAL"), Some("CRITICAL")}
SeverityInputs ==
    {None, Some("CRITICAL"), Some("WARNING"), Some("critical"), Some("Warning"),
     Some(""), Some("INFO"), Some("HIGH_TEMP")}

InitSuggest ==
    /\ Start
    /\ discipline = "none"
    /\ fcst \in {[NoForecast EXCEPT !.stage = "alert",
                                    !.alert = [alert_type |-> a, severity |-> v,
                                               minutes |-> None]] :
                    a \in AlertTypeInputs, v \in SeverityInputs}

Suggest ==
    /\ fcst.stage = "alert"
    /\ fcst' = [fcst EXCEPT !.stage = "suggested",
                            !.actions = GetActionSuggestions(fcst.alert.alert_type,
                                                             fcst.alert.severity)]
    /\ UNCHANGED ChainVars

NextSuggest == Suggest

SpecSuggest == InitSuggest /\ [][NextSuggest]_vars

\* C21: each of the four pairs {HIGH_TEMP, LOW_TEMP} x {CRITICAL, WARNING}
\* gets its own list (seven entries, the heading of its severity, then the
\* first measure of its own), and every other pair - unknown or absent alert
\* type, known type with unknown or absent severity - gets the same list of
\* exactly four generic monitoring actions.
C21_SuggestionLookup ==
    fcst.stage = "suggested" =>
        LET a == fcst.alert.alert_type
            v == fcst.alert.severity
            known == /\ a \in {Some("HIGH_TEMP"), Some("LOW_TEMP")}
                     /\ v \in {Some("CRITICAL"), Some("WARNING")}
        IN  /\ known =>
                 /\ Len(fcst.actions) = 7
                 /\ fcst.actions[1] = IF v = Some("CRITICAL")
                                      THEN "IMMEDIATE ACTION REQUIRED"
                                      ELSE "PREVENTIVE ACTION NEEDED"
                 /\ fcst.actions[2] =
                       IF a = Some("HIGH_TEMP")
                       THEN IF v = Some("CRITICAL")
                            THEN "Transfer vaccines to backup cooler immediately"
                            ELSE "Add extra ice packs to vaccine carrier"
                       ELSE IF v = Some("CRITICAL")
                            THEN "Remove some ice packs immediately"
                            ELSE "Reduce number of ice packs"
            /\ ~known =>
                 /\ Len(fcst.actions) = 4
                 /\ fcst.actions = <<"Continue monitoring temperature",
                                     "Maintain current storage conditions",
                                     "Check sensor connections",
                                     "Document current status">>

\* C21 witness: a known alert type with an absent severity got the generic
\* list.
C21_Witness ==
    /\ fcst.stage = "suggested"
    /\ fcst.alert.alert_type = Some("LOW_TEMP")
    /\ fcst.alert.severity = None
    /\ Len(fcst.actions) = 4

-----------------------------------------------------------------------------
\* Further properties of the breach classification

\* The forecast indices (1-based) whose value is outside the safe range, and
\* those above it.
OutIndices == {i \in 1..Len(Forecast) : OutOfRange(Forecast[i])}
UpperOutIndices == {i \in 1..Len(Forecast) : Forecast[i] > 800}
Soonest(indices) == CHOOSE i \in indices : \A j \in indices : i <= j

\* C23 as stated: minutes is 5 times the position of the first value outside
\* the safe range in either direction, and severity is CRITICAL whenever that
\* position lies within 60 minutes.
C23_SoonestEitherDirection ==
    (Classified /\ OutIndices # {}) =>
        /\ fcst.alert.minutes = Some(5 * Soonest(OutIndices))
        /\ 5 * Soonest(OutIndices) <= 60 => fcst.alert.severity = Some("CRITICAL")

\* C23 amended: the soonest event of the reported limit is reported.  When
\* some value is above safe_max, minutes is 5 times the position of the first
\* such value and the result is HIGH_TEMP, even when a value below safe_min
\* comes sooner (minutes is then later than that lower breach); otherwise
\* minutes is 5 times the position of the first value below safe_min.
\* Severity is CRITICAL exactly when the reported minutes are at most 60.
C23_SoonestOfReportedLimit ==
    (Classified /\ OutIndices # {}) =>
        LET reported == IF UpperOutIndices # {} THEN UpperOutIndices ELSE OutIndices
        IN  /\ fcst.alert.minutes = Some(5 * Soonest(reported))
            /\ (fcst.alert.severity = Some("CRITICAL")) <=> (5 * Soonest(reported) <= 60)
            /\ (UpperOutIndices = {} \/ Soonest(OutIndices) \in UpperOutIndices)
                  => fcst.alert.minutes = Some(5 * Soonest(OutIndices))
            /\ (UpperOutIndices # {} /\ Soonest(OutIndices) \notin UpperOutIndices)
                  => /\ fcst.alert.alert_type = Some("HIGH_TEMP")
                     /\ fcst.alert.minutes[1] > 5 * Soonest(OutIndices)

\* C23 witness: a lower breach within the hour precedes an upper breach after
\* the hour; the result is the HIGH_TEMP warning of the later one.
C23_Witness ==
    /\ Classified
    /\ OutIndices # {}
    /\ UpperOutIndices # {}
    /\ 5 * Soonest(OutIndices) <= 60
    /\ Soonest(OutIndices) \notin UpperOutIndices
    /\ fcst.alert = [alert_type |-> Some("HIGH_TEMP"), severity |-> Some("WARNING"),
                     minutes |-> Some(5 * Soonest(UpperOutIndices))]

\* The indices within 120 minutes whose value is inside an upper or a lower
\* warning margin.
UpperMarginHits == {i \in 1..Len(Forecast) : Forecast[i] > 750 /\ 5 * i <= 120}
LowerMarginHits == {i \in 1..Len(Forecast) : Forecast[i] < 250 /\ 5 * i <= 120}

\* C24: when no forecast value is outside [safe_min, safe_max], a value above
\* safe_max - 0.5 within 120 minutes gives HIGH_TEMP/WARNING (never CRITICAL)
\* with the minutes of the first such value, also when a value below
\* safe_min + 0.5 comes sooner; without such an upper hit a value below
\* safe_min + 0.5 within 120 minutes gives LOW_TEMP/WARNING with the minutes
\* of the first such value; without either there is no alert.
C24_WarningTier ==
    (Classified /\ OutIndices = {}) =>
        /\ UpperMarginHits # {} =>
              fcst.alert = [alert_type |-> Some("HIGH_TEMP"),
                            severity |-> Some("WARNING"),
                            minutes |-> Some(5 * Soonest(UpperMarginHits))]
        /\ (UpperMarginHits = {} /\ LowerMarginHits # {}) =>
              fcst.alert = [alert_type |-> Some("LOW_TEMP"),
                            severity |-> Some("WARNING"),
                            minutes |-> Some(5 * Soonest(LowerMarginHits))]
        /\ (UpperMarginHits = {} /\ LowerMarginHits = {}) => fcst.alert = NoAlert

\* C24 witness: a lower-margin value comes before an upper-margin value, both
\* within the first hour, and the result is the HIGH_TEMP warning.
C24_Witness ==
    /\ Classified
    /\ OutIndices = {}
    /\ UpperMarginHits # {}
    /\ LowerMarginHits # {}
    /\ Soonest(LowerMarginHits) < Soonest(UpperMarginHits)
    /\ 5 * Soonest(UpperMarginHits) <= 60
    /\ fcst.alert.alert_type = Some("HIGH_TEMP")
    /\ fcst.alert.severity = Some("WARNING")

\* C28: two check_breach_risk calls on one forecast that differ only in
\* current_temp return the same triple, and minutes is never 0.
C28_CurrentTempUnused ==
    /\ fcst.stage = "reclassified" =>
          /\ fcst.current_temp # fcst.current_temp_again
          /\ fcst.alert_again = fcst.alert
    /\ fcst.stage \in {"classified", "reclassified"} =>
          /\ fcst.alert.minutes # Some(0)
          /\ fcst.alert_again.minutes # Some(0)

\* C28 witness: the second call had a current temperature above safe_max, on
\* a forecast that stays inside the margins, and both calls reported nothing.
C28_Witness ==
    /\ fcst.stage = "reclassified"
    /\ fcst.predictions # None
    /\ fcst.current_temp <= 800
    /\ fcst.current_temp_again > 800
    /\ fcst.alert = NoAlert
    /\ fcst.alert_again = NoAlert

-----------------------------------------------------------------------------
\* Further properties of predict_temperature

\* C25: on the model path the window starts as the last lag smoothed values;
\* each of the 24 iterations drops the oldest value and appends the value it
\* appends to the forecast, so the window has lag values before and after
\* every iteration, and after k >= lag iterations it is the last lag forecast
\* values.
C25_SlidingWindow ==
    (Returned /\ fcst.path = "model") =>
        LET n == Len(fcst.readings)
            lag == fcst.lags
            W == fcst.windows
            series == SmoothTemperature(fcst.readings)
        IN  /\ Len(W) = 24 + 1
            /\ W[1] = [i \in 1..lag |-> series[n - lag + i]]
            /\ \A k \in 1..24 :
                  /\ Len(W[k]) = lag
                  /\ Len(W[k + 1]) = lag
                  /\ \A i \in 1..(lag - 1) : W[k + 1][i] = W[k][i + 1]
                  /\ W[k + 1][lag] = Forecast[k]
                  /\ k >= lag => W[k + 1] = [i \in 1..lag |-> Forecast[k - lag + i]]

\* C25 witness: a model-path call with the longest lag has returned; its last
\* window holds forecast values only and differs from the first.
C25_Witness ==
    /\ Returned
    /\ fcst.path = "model"
    /\ fcst.lags = 12
    /\ Len(fcst.windows) = 25
    /\ fcst.windows[25] # fcst.windows[1]
    /\ fcst.windows[25][1] = Forecast[13]

\* C27: a history of n >= 20 readings never takes the infeasible-window
\* return: lag = min(12, n div 3) is at least 6, n >= lag + 5, and at least 5
\* training rows remain after the lag.
C27_InfeasibleUnreachable ==
    (fcst.stage \in {"forecast", "classified", "raised"} /\ Len(fcst.readings) >= 20) =>
        LET n == Len(fcst.readings) IN
        /\ fcst.path \in {"model", "raised"}
        /\ fcst.path = "model" => fcst.predictions # None
        /\ fcst.lags = (IF n \div 3 < 12 THEN n \div 3 ELSE 12)
        /\ fcst.lags >= 6
        /\ n >= fcst.lags + 5
        /\ n - fcst.lags >= 5

\* C27 witness: the shortest history of the model path, 20 readings, returned
\* a forecast with lag 6.
C27_Witness ==
    /\ Returned
    /\ Len(fcst.readings) = 20
    /\ fcst.path = "model"
    /\ fcst.lags = 6
    /\ fcst.predictions # None

-----------------------------------------------------------------------------
\* The feature vectors (src/predictor.py)
\*
\* A feature that is a quotient is the pair <<numerator, denominator>>; a
\* standard deviation is <<"sqrt", numerator, denominator>>, the root of the
\* quotient, with the root of zero written <<"sqrt", 0, 1>>.

RECURSIVE Sum(_)
Sum(w) == IF Len(w) = 0 THEN 0 ELSE Head(w) + Sum(Tail(w))

RECURSIVE SumOfSquares(_)
SumOfSquares(w) == IF Len(w) = 0 THEN 0 ELSE Head(w) * Head(w) + SumOfSquares(Tail(w))

\* mean(): sum / n
Mean(w) == <<Sum(w), Len(w)>>

\* std with ddof delta degrees of freedom:
\* sqrt(sum (x - mean)^2 / (n - ddof)), and
\* sum (x - mean)^2 = (n sum x^2 - (sum x)^2) / n.
Std(w, ddof) ==
    LET n == Len(w)
        q == n * SumOfSquares(w) - Sum(w) * Sum(w)
    IN  IF q = 0 THEN <<"sqrt", 0, 1>> ELSE <<"sqrt", q, n * (n - ddof)>>

\* The last four values of a window (the whole window when it is shorter).
Recent(w) == IF Len(w) >= 4 THEN SubSeq(w, Len(w) - 3, Len(w)) ELSE w

\* One row of create_features: pandas Series.mean() and Series.std(), whose
\* default is ddof = 1.
TrainingRow(window, lags) ==
    <<window[Len(window)],
      Mean(window),
      Std(window, 1),
      <<window[Len(window)] - window[1], lags>>,
      <<Len(window) * window[Len(window)] - Sum(window), Len(window)>>,
      Mean(Recent(window))>>

\* The features of the prediction loop: np.mean and np.std, whose default is
\* ddof = 0.
ProjectionRow(current_window, lags) ==
    <<current_window[Len(current_window)],
      Mean(current_window),
      Std(current_window, 0),
      <<current_window[Len(current_window)] - current_window[1], lags>>,
      <<Len(current_window) * current_window[Len(current_window)] - Sum(current_window),
        Len(current_window)>>,
      Mean(Recent(current_window))>>

\* Inputs: windows of every length lags can have, constant or moving by a
\* constant step.
WindowLengths == {Lags(n) : n \in MinReadings..(3 * MaxLags)}
FeatureWindows ==
    {History(lags, start, slope) :
        lags \in WindowLengths, start \in HistoryStarts \cup {200, 350},
        slope \in HistorySlopes}

InitFeatures ==
    /\ Start
    /\ discipline = "none"
    /\ fcst \in {[NoForecast EXCEPT !.stage = "window", !.window = w, !.lags = Len(w)] :
                    w \in FeatureWindows}

\* Both computations applied to one window.
ComputeFeatures ==
    /\ fcst.stage = "window"
    /\ fcst' = [fcst EXCEPT !.stage = "features",
                            !.training_row = TrainingRow(fcst.window, fcst.lags),
                            !.projection_row = ProjectionRow(fcst.window, fcst.lags)]
    /\ UNCHANGED ChainVars

NextFeatures == ComputeFeatures

SpecFeatures == InitFeatures /\ [][NextFeatures]_vars

\* C26: for every window the feature vector of the prediction loop has the
\* same six values as the row create_features computes for it.
C26_SameFeatures ==
    fcst.stage = "features" => fcst.projection_row = fcst.training_row

====
